---- MODULE Spec2Model ----
(***************************************************************************)
(* Model of src/relax/align_ligand_conformer.py: the script that embeds    *)
(* conformers of a ligand, scores them against the predicted heavy-atom    *)
(* distance matrix, keeps the arg-min one, superimposes it on the          *)
(* prediction and writes the error CSV and the aligned SDF.                *)
(*                                                                         *)
(* Numbers.  Coordinates are integers on the x axis (collinear point sets, *)
(* y = z = 0), in units of 1e-5 Angstrom, so that the regulariser 1e-10 of *)
(* lines 83, 117 and 118 is exactly EPS = 1 squared unit.  Distances and   *)
(* errors are fixed-point numbers with FP steps per unit; np.sqrt is the   *)
(* floor square root on that grid and np.mean of an empty array is NaN.    *)
(* A conformer's positions carry a scale: the superposition's translation  *)
(* is a difference of centroids, kept exact as numerators over the number  *)
(* of superimposed points.  Array indices are 0-based as in the source;    *)
(* sequences hold entry i at position i + 1.                               *)
(***************************************************************************)
EXTENDS Integers, Sequences, FiniteSets, TLC

\* ---------------------------------------------------------------- bounds
\* largest coordinate of an input or embedded atom
CoordMax == 2
\* largest number of atoms in chain B of the predicted structure
MaxPred == 3
\* largest number of conformers one EmbedMultipleConfs call yields here
MaxEmbedded == 2
\* number of distinct states the unseeded random generator can start from
NumSeeds == 12
\* fixed-point steps per coordinate unit
FP == 10

\* ------------------------------------------------------ program constants
\* 1e-10 in squared coordinate units (lines 83, 117, 118)
EPS == 1
\* ps.randomSeed = 0xf00d (line 107)
randomSeed == 61453
\* max_confs (line 109)
max_confs == 100

\* a float: a fixed-point number, or NaN
Num(v) == [nan |-> FALSE, v |-> v]
NaN == [nan |-> TRUE, v |-> 0]

Coords == 0..CoordMax
SeedSpace == 0..(NumSeeds - 1)

\* ------------------------------------------------------------- arithmetic
Abs(x) == IF x < 0 THEN -x ELSE x

RECURSIVE Pow(_, _)
Pow(b, e) == IF e = 0 THEN 1 ELSE b * Pow(b, e - 1)

\* np.sqrt on the fixed-point grid: the floor square root
ISqrt(n) == CHOOSE r \in 0..n : r * r <= n /\ (r + 1) * (r + 1) > n

\* sqrt(1e-10 + d**2) of a coordinate difference d, as a fixed-point number
SmoothDist(d) == ISqrt(FP * FP * (EPS + d * d))

\* SmoothAbs without the regulariser: the plain absolute value
PlainAbs(x) == ISqrt(x * x)

\* sqrt(1e-10 + x**2) of a fixed-point number x, as a fixed-point number
SmoothAbs(x) == ISqrt(FP * FP * EPS + x * x)

RECURSIVE SumOver(_, _)
SumOver(f, S) ==
  IF S = {} THEN 0
  ELSE LET k == CHOOSE k \in S : TRUE IN f[k] + SumOver(f, S \ {k})

RECURSIVE SeqSum(_)
SeqSum(s) == IF s = <<>> THEN 0 ELSE s[1] + SeqSum(Tail(s))

\* ------------------------------------------------------------ numpy arrays
\* np.array(chain_coords): an empty list gives a 1-D array of shape (0,)
np_array(list) ==
  IF list = <<>> THEN [shape |-> <<0>>, x |-> <<>>]
  ELSE [shape |-> <<Len(list), 3>>, x |-> list]

\* np.sqrt(1e-10 + np.sum((X[:,None]-X[None,:])**2, axis=-1)): an (n,3) array
\* gives the (n,n) distance matrix; the (0,) array gives (0,1)-(1,0) = (0,0),
\* summed over its last axis: an empty 1-D array
dmat(X) ==
  IF Len(X.shape) = 1
    THEN [shape |-> <<0>>, at |-> <<>>]
    ELSE LET n == X.shape[1] IN
         [shape |-> <<n, n>>,
          at |-> [t \in (1..n) \X (1..n) |-> SmoothDist(X.x[t[1]] - X.x[t[2]])]]

\* numpy's broadcast of two shapes of at most two axes, <<>> when they clash
Pad(shape) == IF Len(shape) = 1 THEN <<1, shape[1]>> ELSE shape
DimOk(a, b) == a = b \/ a = 1 \/ b = 1
Dim(a, b) == IF a = 1 THEN b ELSE a
Broadcast(sa, sb) ==
  LET a == Pad(sa)
      b == Pad(sb)
  IN IF DimOk(a[1], b[1]) /\ DimOk(a[2], b[2])
       THEN <<Dim(a[1], b[1]), Dim(a[2], b[2])>>
       ELSE <<>>

\* the entry of array A that lands on place <<i, j>> of a broadcast result
Elem(A, i, j) ==
  LET s == Pad(A.shape)
      ii == IF s[1] = 1 THEN 1 ELSE i
      jj == IF s[2] = 1 THEN 1 ELSE j
  IN IF Len(A.shape) = 1 THEN A.at[<<jj>>] ELSE A.at[<<ii, jj>>]

\* np.mean(np.sqrt(1e-10 + (conf_dmat-pred_dmat)**2)) once the shapes broadcast
MeanSmoothDiff(A, B) ==
  LET s == Broadcast(A.shape, B.shape)
      I == (1..s[1]) \X (1..s[2])
      f == [t \in I |-> SmoothAbs(Elem(A, t[1], t[2]) - Elem(B, t[1], t[2]))]
  IN IF I = {} THEN NaN ELSE Num(SumOver(f, I) \div Cardinality(I))

\* ------------------------------------------------------------------ RDKit
\* Chem.MolFromSmiles on the SMILES the model draws: the atoms written in the
\* string, in order, with the number of implicit hydrogens; ok is FALSE (the
\* call returns None) when the string does not parse.  A deuterium written
\* "[2H]" is an atom of symbol H.
SmilesSet == {"[He]", "O", "C#N", "[2H]C#N", "O=C=O", "C("}
MolFromSmiles(smiles) ==
  CASE smiles = "[He]"    -> [ok |-> TRUE, atoms |-> <<"He">>, implicitHs |-> 0]
    [] smiles = "O"       -> [ok |-> TRUE, atoms |-> <<"O">>, implicitHs |-> 2]
    [] smiles = "C#N"     -> [ok |-> TRUE, atoms |-> <<"C", "N">>, implicitHs |-> 1]
    [] smiles = "[2H]C#N" -> [ok |-> TRUE, atoms |-> <<"H", "C", "N">>, implicitHs |-> 0]
    [] smiles = "O=C=O"   -> [ok |-> TRUE, atoms |-> <<"O", "C", "O">>, implicitHs |-> 0]
    [] OTHER              -> [ok |-> FALSE, atoms |-> <<>>, implicitHs |-> 0]

\* Chem.AddHs: the implicit hydrogens become atoms appended after the others
AddHs(mol) ==
  [atoms |-> mol.atoms \o [i \in 1..mol.implicitHs |-> "H"], confs |-> <<>>]

NoMol == [atoms |-> <<>>, confs |-> <<>>]
GetNumAtoms(mol) == Len(mol.atoms)

\* The state the random generator starts from: drawn afresh for a call whose
\* randomSeed is -1 (the default), fixed by the seed otherwise.
DefaultParams == [randomSeed |-> -1, boundsMat |-> <<>>]
SeedsOf(params) ==
  IF params.randomSeed = -1 THEN SeedSpace ELSE {params.randomSeed % NumSeeds}

\* The generator's output for a start state, as a number below total
Draw(seed, total) == (37 * seed + 11) % total

\* one conformer of n atoms from the digits of q
Positions(n, q) ==
  [scale |-> 1,
   x |-> [a \in 1..n |-> (q \div Pow(CoordMax + 1, a - 1)) % (CoordMax + 1)]]

\* AllChem.EmbedMolecule: one conformer, or none (-1) when embedding fails
EmbedMolecule(mol, seed) ==
  LET n == GetNumAtoms(mol)
      Q == Pow(CoordMax + 1, n)
      d == Draw(seed, Q + 1)
  IN IF d = Q THEN <<>> ELSE <<Positions(n, d)>>

\* Chem.rdDistGeom.EmbedMultipleConfs: the earlier conformers are cleared and
\* between 0 and numConfs new ones are embedded, a function of the start state
EmbedMultipleConfs(mol, numConfs, seed) ==
  LET n == GetNumAtoms(mol)
      Q == Pow(CoordMax + 1, n)
      d == Draw(seed, (MaxEmbedded + 1) * Pow(Q, MaxEmbedded))
      k0 == d % (MaxEmbedded + 1)
      k == IF k0 > numConfs THEN numConfs ELSE k0
  IN [c \in 1..k |-> Positions(n, ((d \div (MaxEmbedded + 1)) \div Pow(Q, c - 1)) % Q)]

\* AllChem.Get3DDistanceMatrix of a conformer: plain distances, all atoms
Get3DDistanceMatrix(conf) ==
  [t \in (1..Len(conf.x)) \X (1..Len(conf.x)) |->
     FP * Abs(conf.x[t[1]] - conf.x[t[2]])]

\* ------------------------------------------------------------------ state
VARIABLES
  pc,               \* the statement the script is at
  failed_at,        \* the statement whose exception ended the run
  pred_pdb,         \* input: chain B of the predicted structure file
  ligand_smiles,    \* input: the SMILES string
  pred_ligand,      \* read_pdb's chain_coords
  m,                \* the molecule: atoms and conformers
  bounds,           \* the bounds matrix
  pred_dmat,        \* the predicted distance matrix
  bounds_mapping,   \* heavy-atom number -> atom index
  ps,               \* the embedding parameter object
  embed_call,       \* the arguments EmbedMultipleConfs was called with
  conf_errs,        \* the error of each conformer
  best,             \* what generate_best_conformer returned
  csv,              \* the row written to conformer_dmat_err.csv
  aligned_conf_pos, \* align_coords_transform's result
  sdf,              \* what write_sdf wrote
  prev              \* the result of an earlier run on the same inputs

vars == <<pc, failed_at, pred_pdb, ligand_smiles, pred_ligand, m, bounds,
          pred_dmat, bounds_mapping, ps, embed_call, conf_errs, best, csv,
          aligned_conf_pos, sdf, prev>>

inputs == <<pred_pdb, ligand_smiles>>

RECURSIVE SeqsUpTo(_, _)
SeqsUpTo(S, n) ==
  IF n = 0 THEN {<<>>}
  ELSE LET shorter == SeqsUpTo(S, n - 1)
       IN shorter \cup {Append(s, x) : s \in {t \in shorter : Len(t) = n - 1}, x \in S}

\* the predicted structure file: chain B absent, or its atoms' coordinates
PdbInputs ==
  {[chainB |-> FALSE, coords |-> <<>>]}
    \cup {[chainB |-> TRUE, coords |-> c] : c \in SeqsUpTo(Coords, MaxPred)}

NoArray == [shape |-> <<>>, x |-> <<>>]
NoMatrix == [shape |-> <<>>, at |-> <<>>]
NoConf == [scale |-> 0, x |-> <<>>]
NoCall == [called |-> FALSE, numConfs |-> 0, params |-> DefaultParams]
NoBest == [returned |-> FALSE, best_conf_id |-> 0, best_conf_err |-> NaN,
           best_conf_pos |-> NoConf, nonH_inds |-> <<>>]
NoCsv == [written |-> FALSE, conformer_dmat_err |-> NaN]
NoSdf == [written |-> FALSE, confId |-> 0, pos |-> NoConf]
NoPrev == [set |-> FALSE, best_conf_id |-> 0, best_conf_err |-> NaN]

\* the state of a run that has parsed its arguments and done nothing else
Fresh ==
  /\ pc = "read_pdb"
  /\ failed_at = ""
  /\ pred_ligand = NoArray
  /\ m = NoMol
  /\ bounds = <<>>
  /\ pred_dmat = NoMatrix
  /\ bounds_mapping = <<>>
  /\ ps = DefaultParams
  /\ embed_call = NoCall
  /\ conf_errs = <<>>
  /\ best = NoBest
  /\ csv = NoCsv
  /\ aligned_conf_pos = NoConf
  /\ sdf = NoSdf

Init ==
  /\ pred_pdb \in PdbInputs
  /\ ligand_smiles \in SmilesSet
  /\ prev = NoPrev
  /\ Fresh

\* an uncaught exception at the current statement ends the run
Raise ==
  /\ pc' = "failed"
  /\ failed_at' = pc

\* line 200, read_pdb: model['B'] raises KeyError when the chain is absent
read_pdb ==
  /\ pc = "read_pdb"
  /\ IF ~pred_pdb.chainB
       THEN /\ Raise
            /\ UNCHANGED pred_ligand
       ELSE /\ pred_ligand' = np_array(pred_pdb.coords)
            /\ pc' = "build"
            /\ UNCHANGED failed_at
  /\ UNCHANGED <<inputs, m, bounds, pred_dmat, bounds_mapping, ps, embed_call,
                 conf_errs, best, csv, aligned_conf_pos, sdf, prev>>

\* line 78: m = Chem.AddHs(Chem.MolFromSmiles(ligand_smiles))
BuildMol ==
  /\ pc = "build"
  /\ IF ~MolFromSmiles(ligand_smiles).ok
       THEN /\ Raise
            /\ UNCHANGED m
       ELSE /\ m' = AddHs(MolFromSmiles(ligand_smiles))
            /\ pc' = "embed_template"
            /\ UNCHANGED failed_at
  /\ UNCHANGED <<inputs, pred_ligand, bounds, pred_dmat, bounds_mapping, ps,
                 embed_call, conf_errs, best, csv, aligned_conf_pos, sdf, prev>>

\* lines 80-81: the unseeded template embedding and its distance matrix;
\* Get3DDistanceMatrix raises when the embedding left no conformer
EmbedTemplate ==
  /\ pc = "embed_template"
  /\ \E seed \in SeedsOf(DefaultParams) :
       LET confs == EmbedMolecule(m, seed) IN
       /\ m' = [m EXCEPT !.confs = confs]
       /\ IF confs = <<>>
            THEN /\ Raise
                 /\ UNCHANGED bounds
            ELSE /\ bounds' = Get3DDistanceMatrix(confs[1])
                 /\ pc' = "pred_dmat"
                 /\ UNCHANGED failed_at
  /\ UNCHANGED <<inputs, pred_ligand, pred_dmat, bounds_mapping, ps, embed_call,
                 conf_errs, best, csv, aligned_conf_pos, sdf, prev>>

\* line 83: pred_dmat
PredDmat ==
  /\ pc = "pred_dmat"
  /\ pred_dmat' = dmat(pred_ligand)
  /\ pc' = "map"
  /\ UNCHANGED <<failed_at, inputs, pred_ligand, m, bounds, bounds_mapping, ps,
                 embed_call, conf_errs, best, csv, aligned_conf_pos, sdf, prev>>

\* lines 86-92: the atom index of each non-hydrogen atom, in atom order
RECURSIVE MapAtoms(_, _, _)
MapAtoms(atoms, mi, mapping) ==
  IF mi = Len(atoms) THEN mapping
  ELSE MapAtoms(atoms, mi + 1,
                IF atoms[mi + 1] # "H" THEN Append(mapping, mi) ELSE mapping)

BuildMapping ==
  /\ pc = "map"
  /\ bounds_mapping' = MapAtoms(m.atoms, 0, <<>>)
  /\ pc' = "assign"
  /\ UNCHANGED <<failed_at, inputs, pred_ligand, m, bounds, pred_dmat, ps,
                 embed_call, conf_errs, best, csv, aligned_conf_pos, sdf, prev>>

\* pred_dmat[i,j] raises IndexError on a 1-D array and past the last row or column
InRange(A, i, j) == Len(A.shape) = 2 /\ i < A.shape[1] /\ j < A.shape[2]

\* AssignPair writing at the heavy-atom numbers instead of the atom indices
AssignPairUnmapped(b, mapping, pd, i, j) ==
  IF InRange(pd, i, j) /\ InRange(pd, j, i)
    THEN [b EXCEPT ![<<i + 1, j + 1>>] = pd.at[<<i + 1, j + 1>>],
                   ![<<j + 1, i + 1>>] = pd.at[<<j + 1, i + 1>>]]
    ELSE b

\* lines 100-104: one pair of the loop; an exception skips the pair
AssignPair(b, mapping, pd, i, j) ==
  IF InRange(pd, i, j) /\ InRange(pd, j, i)
    THEN [b EXCEPT ![<<mapping[i + 1] + 1, mapping[j + 1] + 1>>] = pd.at[<<i + 1, j + 1>>],
                   ![<<mapping[j + 1] + 1, mapping[i + 1] + 1>>] = pd.at[<<j + 1, i + 1>>]]
    ELSE b

\* lines 96-104: for i in range(n): for j in range(i+1, n)
RECURSIVE AssignLoop(_, _, _, _, _)
AssignLoop(b, mapping, pd, i, j) ==
  LET n == Len(mapping) IN
  IF i >= n THEN b
  ELSE IF j >= n THEN AssignLoop(b, mapping, pd, i + 1, i + 2)
  ELSE AssignLoop(AssignPair(b, mapping, pd, i, j), mapping, pd, i, j + 1)

AssignBounds ==
  /\ pc = "assign"
  /\ bounds' = AssignLoop(bounds, bounds_mapping, pred_dmat, 0, 1)
  /\ pc' = "params"
  /\ UNCHANGED <<failed_at, inputs, pred_ligand, m, pred_dmat, bounds_mapping, ps,
                 embed_call, conf_errs, best, csv, aligned_conf_pos, sdf, prev>>

\* lines 106-108: the parameter object with the seed and the bounds matrix
SetParams ==
  /\ pc = "params"
  /\ ps' = [randomSeed |-> randomSeed, boundsMat |-> bounds]
  /\ pc' = "embed"
  /\ UNCHANGED <<failed_at, inputs, pred_ligand, m, bounds, pred_dmat,
                 bounds_mapping, embed_call, conf_errs, best, csv,
                 aligned_conf_pos, sdf, prev>>

\* line 110: the arguments of EmbedMultipleConfs(m, max_confs): no parameter
\* object is passed, so the call runs with the defaults
EmbedArgs == [called |-> TRUE, numConfs |-> max_confs, params |-> DefaultParams]

EmbedConfs ==
  /\ pc = "embed"
  /\ embed_call' = EmbedArgs
  /\ \E seed \in SeedsOf(EmbedArgs.params) :
       m' = [m EXCEPT !.confs = EmbedMultipleConfs(m, EmbedArgs.numConfs, seed)]
  /\ pc' = "score"
  /\ UNCHANGED <<failed_at, inputs, pred_ligand, bounds, pred_dmat, bounds_mapping,
                 ps, conf_errs, best, csv, aligned_conf_pos, sdf, prev>>

\* line 116: pos[nonH_inds], an (n,3) array
Take(conf, inds) ==
  [shape |-> <<Len(inds), 3>>, x |-> [a \in 1..Len(inds) |-> conf.x[inds[a] + 1]]]

\* lines 115-118: the error of one conformer
ConfErr(conf, nonH_inds, pd) == MeanSmoothDiff(dmat(Take(conf, nonH_inds)), pd)

\* line 118: conf_dmat-pred_dmat raises ValueError when the shapes do not broadcast
ShapesClash(nonH_inds, pd) == Broadcast(<<Len(nonH_inds), Len(nonH_inds)>>, pd.shape) = <<>>

\* lines 112-119: the scoring loop; its body runs once per conformer
ScoreConfs ==
  /\ pc = "score"
  /\ IF m.confs # <<>> /\ ShapesClash(bounds_mapping, pred_dmat)
       THEN /\ Raise
            /\ UNCHANGED conf_errs
       ELSE /\ conf_errs' = [c \in 1..Len(m.confs) |->
                               ConfErr(m.confs[c], bounds_mapping, pred_dmat)]
            /\ pc' = "best"
            /\ UNCHANGED failed_at
  /\ UNCHANGED <<inputs, pred_ligand, m, bounds, pred_dmat, bounds_mapping, ps,
                 embed_call, best, csv, aligned_conf_pos, sdf, prev>>

\* the order of floats: every comparison with NaN is false
Less(a, b) == ~a.nan /\ ~b.nan /\ a.v < b.v
Leq(a, b) == ~a.nan /\ ~b.nan /\ a.v <= b.v

\* np.argmin of a non-empty list (0-based): the first NaN when there is one,
\* else the first place no other place is below
argmin(errs) ==
  LET nans == {k \in 1..Len(errs) : errs[k].nan}
      mins == {k \in 1..Len(errs) : \A l \in 1..Len(errs) : ~Less(errs[l], errs[k])}
      first(S) == CHOOSE k \in S : \A l \in S : k <= l
  IN (IF nans # {} THEN first(nans) ELSE first(mins)) - 1

\* GetBest with a default in place of the ValueError: an empty list selects
\* conformer 0 with no error value
GetBestOrDefault ==
  /\ pc = "best"
  /\ best' = [returned |-> TRUE,
              best_conf_id |-> IF conf_errs = <<>> THEN 0 ELSE argmin(conf_errs),
              best_conf_err |-> IF conf_errs = <<>> THEN NaN
                                ELSE conf_errs[argmin(conf_errs) + 1],
              best_conf_pos |-> IF conf_errs = <<>> THEN NoConf
                                ELSE m.confs[argmin(conf_errs) + 1],
              nonH_inds |-> bounds_mapping]
  /\ pc' = "csv"
  /\ UNCHANGED <<failed_at, inputs, pred_ligand, m, bounds, pred_dmat,
                 bounds_mapping, ps, embed_call, conf_errs, csv,
                 aligned_conf_pos, sdf, prev>>

\* lines 123-128: np.argmin raises ValueError on an empty list
GetBest ==
  /\ pc = "best"
  /\ IF conf_errs = <<>>
       THEN /\ Raise
            /\ UNCHANGED best
       ELSE /\ best' = [returned |-> TRUE,
                        best_conf_id |-> argmin(conf_errs),
                        best_conf_err |-> conf_errs[argmin(conf_errs) + 1],
                        best_conf_pos |-> m.confs[argmin(conf_errs) + 1],
                        nonH_inds |-> bounds_mapping]
            /\ pc' = "csv"
            /\ UNCHANGED failed_at
  /\ UNCHANGED <<inputs, pred_ligand, m, bounds, pred_dmat, bounds_mapping, ps,
                 embed_call, conf_errs, csv, aligned_conf_pos, sdf, prev>>

\* WriteCsv with the file written before the id is taken from the file name
WriteCsvBeforeId ==
  /\ pc = "csv"
  /\ csv' = [written |-> TRUE, conformer_dmat_err |-> best.best_conf_err]
  /\ \E has_field \in BOOLEAN :
       IF ~has_field
         THEN Raise
         ELSE /\ pc' = "align"
              /\ UNCHANGED failed_at
  /\ UNCHANGED <<inputs, pred_ligand, m, bounds, pred_dmat, bounds_mapping, ps,
                 embed_call, conf_errs, best, aligned_conf_pos, sdf, prev>>

\* lines 210-214: the id is the second dot-separated field of the file name
\* (IndexError when there is none); then the CSV is written
WriteCsv ==
  /\ pc = "csv"
  /\ \E has_field \in BOOLEAN :
       IF ~has_field
         THEN /\ Raise
              /\ UNCHANGED csv
         ELSE /\ csv' = [written |-> TRUE, conformer_dmat_err |-> best.best_conf_err]
              /\ pc' = "align"
              /\ UNCHANGED failed_at
  /\ UNCHANGED <<inputs, pred_ligand, m, bounds, pred_dmat, bounds_mapping, ps,
                 embed_call, conf_errs, best, aligned_conf_pos, sdf, prev>>

\* sup.set raises when the two point sets differ in shape
SetRaises(pred_pos, conf_pos, nonH_inds) == pred_pos.shape # <<Len(nonH_inds), 3>>

\* sup.run, sup.get_rotran on collinear points: the rotation's x component
\* (-1 when the centred sets are anti-correlated) and the translation
\* av2 - av1*rot, as a numerator over the number n of points
get_rotran(ref, coords) ==
  LET n == Len(ref)
      sr == SeqSum(ref)
      sc == SeqSum(coords)
      cov == SeqSum([k \in 1..n |-> (n * coords[k] - sc) * (n * ref[k] - sr)])
      rot == IF cov < 0 THEN -1 ELSE 1
  IN [rot |-> rot, tran |-> sr - rot * sc, n |-> n]

\* line 144: np.dot(conf_pos, rot) + tran, over every row of conf_pos
Transform(conf_pos, rt) ==
  [scale |-> rt.n,
   x |-> [a \in 1..Len(conf_pos.x) |-> rt.rot * rt.n * conf_pos.x[a] + rt.tran]]

\* align_coords_transform moving only the rows the fit was computed from
align_heavy_only(pred_pos, conf_pos, nonH_inds) ==
  LET heavy == [scale |-> conf_pos.scale, x |-> Take(conf_pos, nonH_inds).x]
  IN Transform(heavy, get_rotran(pred_pos.x, heavy.x))

\* lines 131-146
align_coords_transform(pred_pos, conf_pos, nonH_inds) ==
  Transform(conf_pos, get_rotran(pred_pos.x, Take(conf_pos, nonH_inds).x))

\* line 216
Align ==
  /\ pc = "align"
  /\ IF SetRaises(pred_ligand, best.best_conf_pos, best.nonH_inds)
       THEN /\ Raise
            /\ UNCHANGED aligned_conf_pos
       ELSE /\ aligned_conf_pos' =
                 align_coords_transform(pred_ligand, best.best_conf_pos, best.nonH_inds)
            /\ pc' = "write_sdf"
            /\ UNCHANGED failed_at
  /\ UNCHANGED <<inputs, pred_ligand, m, bounds, pred_dmat, bounds_mapping, ps,
                 embed_call, conf_errs, best, csv, sdf, prev>>

\* lines 187-189: the winning conformer's atoms i < mol.GetNumAtoms() take
\* aligned_conf_pos[i]
SetAtomPositions(mol, aligned) ==
  [scale |-> aligned.scale, x |-> [i \in 1..GetNumAtoms(mol) |-> aligned.x[i]]]

\* line 219, write_sdf: aligned_conf_pos[i] raises IndexError past its last row
write_sdf ==
  /\ pc = "write_sdf"
  /\ IF Len(aligned_conf_pos.x) < GetNumAtoms(m)
       THEN /\ Raise
            /\ UNCHANGED <<m, sdf>>
       ELSE /\ m' = [m EXCEPT !.confs[best.best_conf_id + 1] =
                                 SetAtomPositions(m, aligned_conf_pos)]
            /\ sdf' = [written |-> TRUE, confId |-> best.best_conf_id,
                       pos |-> SetAtomPositions(m, aligned_conf_pos)]
            /\ pc' = "done"
            /\ UNCHANGED failed_at
  /\ UNCHANGED <<inputs, pred_ligand, bounds, pred_dmat, bounds_mapping, ps,
                 embed_call, conf_errs, best, csv, aligned_conf_pos, prev>>

\* the script run again on the same inputs, the first run's result kept aside
Rerun ==
  /\ pc = "done"
  /\ ~prev.set
  /\ prev' = [set |-> TRUE, best_conf_id |-> best.best_conf_id,
              best_conf_err |-> best.best_conf_err]
  /\ UNCHANGED inputs
  /\ pc' = "read_pdb"
  /\ failed_at' = ""
  /\ pred_ligand' = NoArray
  /\ m' = NoMol
  /\ bounds' = <<>>
  /\ pred_dmat' = NoMatrix
  /\ bounds_mapping' = <<>>
  /\ ps' = DefaultParams
  /\ embed_call' = NoCall
  /\ conf_errs' = <<>>
  /\ best' = NoBest
  /\ csv' = NoCsv
  /\ aligned_conf_pos' = NoConf
  /\ sdf' = NoSdf

Next ==
  \/ read_pdb
  \/ BuildMol
  \/ EmbedTemplate
  \/ PredDmat
  \/ BuildMapping
  \/ AssignBounds
  \/ SetParams
  \/ EmbedConfs
  \/ ScoreConfs
  \/ GetBest
  \/ WriteCsv
  \/ Align
  \/ write_sdf

Spec == Init /\ [][Next]_vars

NextRerun == Next \/ Rerun

SpecRerun == Init /\ [][NextRerun]_vars

\* ------------------------------------------------------------- properties
Steps == <<"read_pdb", "build", "embed_template", "pred_dmat", "map", "assign",
           "params", "embed", "score", "best", "csv", "align", "write_sdf", "done">>
Index(step) == CHOOSE i \in 1..Len(Steps) : Steps[i] = step
\* the statement the run is at, or the one that raised
At == IF pc = "failed" THEN failed_at ELSE pc
\* the statement has run to its end without raising
Passed(step) == Index(At) > Index(step)

NumPred == Len(pred_pdb.coords)
HeavyAtoms == {i \in 1..Len(m.atoms) : m.atoms[i] # "H"}
NumHeavy == Cardinality(HeavyAtoms)
\* == on floats: NaN equals nothing
Same(a, b) == ~a.nan /\ ~b.nan /\ a.v = b.v

\* C1: whenever generate_best_conformer returns, the selected index is in the
\* list, the selected error is <= the error of every other conformer, no
\* conformer of a smaller index has the same error, and best_conf_err is the
\* error of the selected conformer.
C1_ArgminLowestMinimal ==
  best.returned =>
    LET id == best.best_conf_id IN
    /\ id \in 0..(Len(conf_errs) - 1)
    /\ \A k \in 1..Len(conf_errs) :
         k # id + 1 => Leq(conf_errs[id + 1], conf_errs[k])
    /\ \A k \in 1..id : ~Same(conf_errs[k], conf_errs[id + 1])
    /\ best.best_conf_err = conf_errs[id + 1]

\* The same holds of every run whose errors are numbers: the runs that break
\* C1 are those whose errors are NaN.
ArgminLowestMinimalOfNumbers ==
  (best.returned /\ \A k \in 1..Len(conf_errs) : ~conf_errs[k].nan) =>
    C1_ArgminLowestMinimal

\* C2: a second run on the same SMILES and the same predicted coordinates
\* returns the same winning index and the same error as the first.
C2_RerunReproduces ==
  (prev.set /\ best.returned) =>
    /\ best.best_conf_id = prev.best_conf_id
    /\ best.best_conf_err = prev.best_conf_err

\* C3: once the alignment has run, aligned_conf_pos holds the one rotation and
\* translation fitted on the heavy atoms applied to each of the M atoms of the
\* winning conformer; write_sdf does not raise, and the conformer it writes
\* has exactly M atoms, each at its aligned position.
C3_AllAtomsAligned ==
  LET M == GetNumAtoms(m)
      rt == get_rotran(pred_ligand.x, Take(best.best_conf_pos, best.nonH_inds).x)
  IN /\ Passed("align") =>
          /\ Len(aligned_conf_pos.x) = M
          /\ \A a \in 1..M :
               aligned_conf_pos.x[a] =
                 rt.rot * rt.n * best.best_conf_pos.x[a] + rt.tran
          /\ failed_at # "write_sdf"
     /\ pc = "done" =>
          /\ sdf.written
          /\ Len(sdf.pos.x) = M
          /\ sdf.pos = aligned_conf_pos
          /\ m.confs[sdf.confId + 1] = aligned_conf_pos
          /\ sdf.confId = best.best_conf_id

\* a finished run of a molecule with hydrogens whose fit needed a reflection
\* of the axis and a shift
C3_Witness ==
  /\ pc = "done"
  /\ GetNumAtoms(m) > NumHeavy
  /\ NumHeavy >= 2
  /\ aligned_conf_pos.x # best.best_conf_pos.x
  /\ get_rotran(pred_ligand.x, Take(best.best_conf_pos, best.nonH_inds).x).rot = -1

\* C4: when EmbedMultipleConfs yielded no conformer, the run is at the scoring
\* loop, at the selection, or has failed at the selection; the selection can
\* only raise; nothing was returned, aligned or written.
C4_NoConformersFatal ==
  (embed_call.called /\ m.confs = <<>>) =>
    /\ pc \in {"score", "best", "failed"}
    /\ pc = "failed" => failed_at = "best"
    /\ pc = "score" => ENABLED ScoreConfs
    /\ pc = "best" => (ENABLED GetBest /\ conf_errs = <<>>)
    /\ ~best.returned
    /\ ~csv.written
    /\ ~sdf.written
    /\ aligned_conf_pos = NoConf

C4_Witness ==
  /\ embed_call.called
  /\ m.confs = <<>>
  /\ pc = "failed"
  /\ failed_at = "best"

\* C5: with chain B present and empty, the run fails no later than the
\* bounds-overwrite loop: it never gets past the loop, embeds or scores.
C5_EmptyPredictionFailsEarly ==
  (pred_pdb.chainB /\ pred_pdb.coords = <<>>) => ~Passed("assign")

\* C6: a run that failed has written no output file.
C6_NoOutputOnFailure ==
  pc = "failed" => (~csv.written /\ ~sdf.written)

\* C6 as amended: a run that failed before the alignment has written nothing;
\* a run that failed in the alignment has written the CSV, holding the winning
\* error, and no SDF; the SDF is written only by a run that finished.
C6_OutputsByFailurePoint ==
  /\ (pc = "failed" /\ Index(failed_at) < Index("align")) =>
       (~csv.written /\ ~sdf.written)
  /\ (pc = "failed" /\ failed_at = "align") =>
       (csv.written /\ csv.conformer_dmat_err = best.best_conf_err /\ ~sdf.written)
  /\ csv.written => (best.returned /\ Passed("csv"))
  /\ sdf.written => (pc = "done" /\ csv.written)

\* a run with a one-atom prediction for a two-heavy-atom molecule: scored by
\* broadcasting, CSV written, alignment failed
C6_Witness ==
  /\ pc = "failed"
  /\ failed_at = "align"
  /\ csv.written
  /\ NumPred = 1
  /\ NumHeavy = 2

\* C7: one heavy atom and one predicted atom: the scorer does not raise and
\* every conformer's error, and the winning error, is 0.
C7_SingleAtomErrorZero ==
  (NumHeavy = 1 /\ NumPred = 1) =>
    /\ failed_at # "score"
    /\ Passed("score") => \A k \in 1..Len(conf_errs) : conf_errs[k] = Num(0)
    /\ best.returned => best.best_conf_err = Num(0)

\* C7 as amended: one heavy atom and one predicted atom: the scorer does not
\* raise and every conformer's error, and the winning error, is sqrt(1e-10)
\* = 1e-5, the regulariser's floor.
C7_SingleAtomErrorFloor ==
  (NumHeavy = 1 /\ NumPred = 1) =>
    /\ failed_at # "score"
    /\ Passed("score") =>
         \A k \in 1..Len(conf_errs) : conf_errs[k] = Num(ISqrt(FP * FP * EPS))
    /\ best.returned => best.best_conf_err = Num(ISqrt(FP * FP * EPS))

\* water and a one-atom prediction, two conformers scored, one returned
C7_Witness ==
  /\ ligand_smiles = "O"
  /\ NumPred = 1
  /\ Len(conf_errs) = 2
  /\ best.returned

\* C8: the multi-conformer embedding was called with the parameter object ps,
\* which carries the seed 0xf00d and the overwritten bounds matrix, and with
\* at most 100 conformers requested.
C8_EmbeddingUsesBoundsAndSeed ==
  embed_call.called =>
    /\ embed_call.numConfs <= max_confs
    /\ embed_call.params.randomSeed = randomSeed
    /\ embed_call.params = ps
    /\ ps.boundsMat = bounds

\* C9: after the overwrite loop, with as many predicted atoms as heavy atoms:
\* the mapping lists the heavy atoms' indices in increasing order, each once;
\* both symmetric bounds entries of every heavy pair hold the predicted
\* distance of the pair; every entry with a hydrogen and every diagonal entry
\* is the template's.
C9_BoundsOverwrite ==
  (pc \in {"params", "embed"} /\ NumPred = NumHeavy) =>
    LET n == Len(bounds_mapping)
        M == GetNumAtoms(m)
        template == Get3DDistanceMatrix(m.confs[1])
    IN /\ n = NumHeavy
       /\ {bounds_mapping[a] + 1 : a \in 1..n} = HeavyAtoms
       /\ \A a, b \in 1..n : a < b => bounds_mapping[a] < bounds_mapping[b]
       /\ \A a, b \in 1..n :
            a < b =>
              /\ bounds[<<bounds_mapping[a] + 1, bounds_mapping[b] + 1>>]
                   = SmoothDist(pred_pdb.coords[a] - pred_pdb.coords[b])
              /\ bounds[<<bounds_mapping[b] + 1, bounds_mapping[a] + 1>>]
                   = SmoothDist(pred_pdb.coords[a] - pred_pdb.coords[b])
       /\ \A i, j \in 1..M :
            (i = j \/ i \notin HeavyAtoms \/ j \notin HeavyAtoms) =>
              bounds[<<i, j>>] = template[<<i, j>>]

\* deuterated HCN (H, C, N: the heavy atoms sit at indices 1 and 2) with a
\* two-atom prediction whose distance differs from the template's
C9_Witness ==
  /\ pc = "params"
  /\ NumPred = NumHeavy
  /\ NumHeavy = 2
  /\ bounds_mapping = <<1, 2>>
  /\ bounds[<<2, 3>>] # Get3DDistanceMatrix(m.confs[1])[<<2, 3>>]
  /\ bounds[<<1, 2>>] # bounds[<<2, 3>>]

\* C10: with a non-empty prediction of fewer atoms than heavy atoms, the
\* overwrite loop and the scoring loop do not raise, the pairs without a
\* predicted distance keep the template's bounds, and the selection raises
\* only when no conformer was embedded.
C10_PartialMappingTolerated ==
  (NumPred >= 1 /\ NumPred < NumHeavy) =>
    /\ failed_at \notin {"assign", "score"}
    /\ failed_at = "best" => m.confs = <<>>
    /\ pc \in {"params", "embed"} =>
         \A a, b \in 1..Len(bounds_mapping) :
           (a # b /\ (a > NumPred \/ b > NumPred)) =>
             bounds[<<bounds_mapping[a] + 1, bounds_mapping[b] + 1>>]
               = Get3DDistanceMatrix(m.confs[1])[<<bounds_mapping[a] + 1,
                                                  bounds_mapping[b] + 1>>]

====
